---- MODULE Spec2Model ----
(***************************************************************************)
(* The user-count service: the user_list ledger, the single-row user_stats *)
(* counter kept by the row triggers of schema.sql, the reconciliation      *)
(* function recalculate_user_count, and the read path of the HTTP server.  *)
(*                                                                         *)
(* The schema runs on PostgreSQL.  No statement of the repository sets an  *)
(* isolation level, so every statement runs under the engine's default,    *)
(* READ COMMITTED: a statement sees the rows committed before it started,  *)
(* an UPDATE of a row waits for an in-flight writer of that row and then   *)
(* works on the row's latest committed version, and each statement inside  *)
(* a plpgsql function takes its own snapshot.  pool.query() sends one      *)
(* statement in its own (autocommit) transaction.                          *)
(*                                                                         *)
(* A ledger row is modelled by its two natural keys; the SERIAL id and the *)
(* created_at/updated_at columns are read by no operation modelled here.   *)
(***************************************************************************)
EXTENDS Integers, FiniteSets, Sequences, TLC

\* ------------------------------------------------------------ bounds
NumNames == 2       \* distinct usernames, and distinct emails
MaxStmtRows == 2    \* rows one INSERT lists / one DELETE's WHERE matches
MaxTotal == 2       \* largest total_users of a database found at start
MaxTime == 2        \* ticks of the database clock
MaxRuns == 2        \* runs of addSampleData one client starts
NumSamples == 5     \* entries of sampleUsers

Names == 1..NumNames
Rows == [username : Names, email : Names]
Clients == {"c1", "c2"}     \* sessions issuing SQL (psql, setup.js)
Reqs == {"r1"}              \* HTTP requests served by server.js
Procs == Clients \cup Reqs

StmtRows == {rs \in SUBSET Rows : rs # {} /\ Cardinality(rs) <= MaxStmtRows}

VARIABLES
    user_list,    \* committed rows of table user_list
    user_stats,   \* committed rows of table user_stats
    now,          \* the database clock
    triggers,     \* the triggers defined on user_list
    pc,           \* per process: where it is in its statement or handler
    tgop,         \* per process: TG_OP of the running statement
    pendingIns,   \* per process: rows inserted, not yet committed
    pendingDel,   \* per process: rows deleted, not yet committed
    trigQ,        \* per process: queued AFTER ... FOR EACH ROW trigger events
    statsNew,     \* per process: its uncommitted version of the counter row
    txTs,         \* per process: CURRENT_TIMESTAMP of its transaction
    actual_count, \* per process: recalculate_user_count's local variable
    result,       \* per process: outcome of its last statement or call
    pool,         \* DatabaseConnection.pool: "null", "open" or "ended"
    isConnected,  \* DatabaseConnection.isConnected
    server,       \* server.js process: "starting", "listening" or "exited"
    dbUp,         \* whether the database answers the pool's connections
    resp,         \* per request: the HTTP reply of its handler
    health,       \* the last reply of GET /health
    lastQuery,    \* how the last DatabaseConnection.query() call ended
    snap,         \* history, per process: what its reconciliation started from
    initial,      \* history: total_users at start
    migrated,     \* history: the migration has run again since provisioning
    sample,       \* per client: its addSampleData run (position, runs, report)
    netDelta,     \* history: rows inserted minus rows deleted by commits
    lastRecalc    \* history: what the last reconciliation not overlapped by a
                  \* commit returned and left in user_stats

dbvars == <<user_list, user_stats, now, triggers>>
txvars == <<pc, tgop, pendingIns, pendingDel, trigQ, statsNew, txTs,
            actual_count, result>>
appvars == <<pool, isConnected, server, dbUp, resp, health, lastQuery>>
histvars == <<initial, migrated, sample, netDelta, lastRecalc, snap>>
vars == <<dbvars, txvars, appvars, histvars>>

\* ------------------------------------------------------------ schema
\* CREATE TABLE user_list: username UNIQUE, email UNIQUE
UniqueKeys(rs) ==
    \A a, b \in rs : (a.username = b.username \/ a.email = b.email) => a = b

\* a ledger whose email column carries no unique index
CollideUsernameOnly(rs, qs) ==
    \E a \in rs, b \in qs : a.username = b.username

\* two sets of rows that cannot coexist under the unique indexes
Collide(rs, qs) ==
    \E a \in rs, b \in qs : a.username = b.username \/ a.email = b.email

\* CREATE TABLE user_stats: id PRIMARY KEY, CHECK (id = 1); no constraint
\* bounds total_users from below
StatsRow(n, t) == [id |-> 1, total_users |-> n, last_updated |-> t]

\* an upsert of the counter row that overwrites the stored count
ProvisionStatsReset(stats, t) == {StatsRow(0, t)}

\* an insert of the counter row with no primary key and no conflict clause
ProvisionStatsAppend(stats, t) ==
    stats \cup {[id |-> Cardinality(stats) + 1, total_users |-> 0, last_updated |-> t]}

\* INSERT INTO user_stats VALUES (1, 0, CURRENT_TIMESTAMP) ON CONFLICT DO NOTHING
ProvisionStats(stats, t) ==
    IF \E r \in stats : r.id = 1 THEN stats ELSE stats \cup {StatsRow(0, t)}

\* history values: no reconciliation to compare with
NoCall == [ret |-> -1, total |-> {}, valid |-> FALSE, n |-> 0]
NoSnap == [clean |-> FALSE, prev |-> NoCall]

TypeOK ==
    /\ user_list \subseteq Rows
    /\ UniqueKeys(user_list)
    /\ Cardinality(user_stats) <= 1
    /\ \A r \in user_stats : r.id = 1 /\ r.total_users \in Int
    /\ \A p \in Procs : Cardinality(statsNew[p]) <= 1

\* ------------------------------------------------------------ triggers
\* the body of update_user_count(): the UPDATE ... WHERE id = 1 applied to
\* the rows of user_stats the statement sees
update_user_count(op, stats, ts) ==
    IF op = "INSERT"
    THEN {[r EXCEPT !.total_users = @ + 1, !.last_updated = ts] :
              r \in {x \in stats : x.id = 1}}
    ELSE IF op = "DELETE"
    THEN {[r EXCEPT !.total_users = @ - 1, !.last_updated = ts] :
              r \in {x \in stats : x.id = 1}}
    ELSE stats

\* CREATE TRIGGER user_insert_trigger AFTER INSERT / user_delete_trigger
\* AFTER DELETE ON user_list: the triggers the schema defines
SchemaTriggers ==
    {[name |-> "user_insert_trigger", event |-> "INSERT"],
     [name |-> "user_delete_trigger", event |-> "DELETE"]}

\* a table whose triggers run on every kind of statement
TriggersOnAny(trgs, op) == Cardinality(trgs)

\* the number of triggers of the table that a statement of kind op fires
TriggersOn(trgs, op) == Cardinality({t \in trgs : t.event = op})

\* DROP TRIGGER IF EXISTS name ON user_list
DropTrigger(trgs, name) == {t \in trgs : t.name # name}

\* CREATE TRIGGER name AFTER event ON user_list
CreateTrigger(trgs, name, event) == trgs \cup {[name |-> name, event |-> event]}

\* a trigger declared FOR EACH STATEMENT fires once whatever the row count
TriggerEventsPerStatement(rs) == IF rs = {} THEN 0 ELSE 1

\* FOR EACH ROW: one trigger event per affected row
TriggerEvents(rs) == Cardinality(rs)

\* an adjustment that does not wait for the counter row's in-flight writer
NoRowLock(p) == TRUE

\* Row lock of the UPDATE in the trigger and in recalculate_user_count: it
\* waits while another transaction holds an uncommitted version of the row.
CanLockStats(p) == \A q \in Procs \ {p} : statsNew[q] = {}

\* the version of the counter row an UPDATE of process p works on
StatsVisible(p) == IF statsNew[p] # {} THEN statsNew[p] ELSE user_stats

\* ------------------------------------------------------------ ledger statements
\* INSERT INTO user_list (username, email) VALUES ... (one or more rows)
InsertStmt(p, rs) ==
    /\ pc[p] = "idle"
    /\ p \in Clients
    \* the unique index waits for an in-flight transaction holding a
    \* conflicting uncommitted insert or delete
    /\ \A q \in Procs \ {p} : ~Collide(rs, pendingIns[q] \cup pendingDel[q])
    /\ IF ~UniqueKeys(rs) \/ Collide(rs, user_list)
       THEN /\ result' = [result EXCEPT ![p] = "23505"]
            /\ UNCHANGED <<pc, tgop, pendingIns, trigQ, txTs>>
       ELSE /\ pc' = [pc EXCEPT ![p] = "trig"]
            /\ tgop' = [tgop EXCEPT ![p] = "INSERT"]
            /\ pendingIns' = [pendingIns EXCEPT ![p] = rs]
            /\ trigQ' = [trigQ EXCEPT
                           ![p] = TriggerEvents(rs) * TriggersOn(triggers, "INSERT")]
            /\ txTs' = [txTs EXCEPT ![p] = now]
            /\ result' = [result EXCEPT ![p] = "running"]
    /\ UNCHANGED <<dbvars, pendingDel, statsNew, actual_count, appvars, histvars>>

\* DELETE FROM user_list WHERE ...: rs is the set of committed rows the
\* predicate matches (possibly none)
DeleteStmt(p, rs) ==
    /\ pc[p] = "idle"
    /\ p \in Clients
    /\ rs \subseteq user_list
    /\ Cardinality(rs) <= MaxStmtRows
    \* a row being deleted by an in-flight transaction is locked
    /\ \A q \in Procs \ {p} : rs \cap pendingDel[q] = {}
    /\ pc' = [pc EXCEPT ![p] = "trig"]
    /\ tgop' = [tgop EXCEPT ![p] = "DELETE"]
    /\ pendingDel' = [pendingDel EXCEPT ![p] = rs]
    /\ trigQ' = [trigQ EXCEPT
                   ![p] = TriggerEvents(rs) * TriggersOn(triggers, "DELETE")]
    /\ txTs' = [txTs EXCEPT ![p] = now]
    /\ result' = [result EXCEPT ![p] = "running"]
    /\ UNCHANGED <<dbvars, pendingIns, statsNew, actual_count, appvars, histvars>>

\* UPDATE user_list SET username = ..., email = ... WHERE ...: old is the
\* committed row the predicate matches, new the row it becomes (new = old
\* when only columns outside the keys change)
UpdateStmt(p, old, new) ==
    /\ pc[p] = "idle"
    /\ p \in Clients
    /\ old \in user_list
    /\ new \in Rows
    \* the row is locked while an in-flight transaction deletes or updates it,
    \* and the unique index waits for conflicting uncommitted rows
    /\ \A q \in Procs \ {p} : /\ old \notin pendingDel[q]
                               /\ ~Collide({new}, pendingIns[q] \cup pendingDel[q])
    /\ IF Collide({new}, user_list \ {old})
       THEN /\ result' = [result EXCEPT ![p] = "23505"]
            /\ UNCHANGED <<pc, tgop, pendingIns, pendingDel, trigQ, txTs>>
       ELSE /\ pc' = [pc EXCEPT ![p] = "trig"]
            /\ tgop' = [tgop EXCEPT ![p] = "UPDATE"]
            /\ pendingDel' = [pendingDel EXCEPT ![p] = {old}]
            /\ pendingIns' = [pendingIns EXCEPT ![p] = {new}]
            /\ trigQ' = [trigQ EXCEPT
                           ![p] = TriggerEvents({old}) * TriggersOn(triggers, "UPDATE")]
            /\ txTs' = [txTs EXCEPT ![p] = now]
            /\ result' = [result EXCEPT ![p] = "running"]
    /\ UNCHANGED <<dbvars, statsNew, actual_count, appvars, histvars>>

\* user_insert_trigger / user_delete_trigger: one queued row event runs
\* update_user_count() inside the statement's transaction
FireTrigger(p) ==
    /\ pc[p] = "trig"
    /\ trigQ[p] > 0
    /\ CanLockStats(p)
    /\ statsNew' = [statsNew EXCEPT
                      ![p] = update_user_count(tgop[p], StatsVisible(p), txTs[p])]
    /\ trigQ' = [trigQ EXCEPT ![p] = @ - 1]
    /\ UNCHANGED <<dbvars, pc, tgop, pendingIns, pendingDel, txTs,
                   actual_count, result, appvars, histvars>>

\* the statement's transaction commits: its rows and its counter version
\* become visible together
Commit(p) ==
    /\ pc[p] = "trig"
    /\ trigQ[p] = 0
    /\ user_list' = (user_list \ pendingDel[p]) \cup pendingIns[p]
    /\ user_stats' = IF statsNew[p] # {} THEN statsNew[p] ELSE user_stats
    /\ netDelta' = netDelta + Cardinality(pendingIns[p]) - Cardinality(pendingDel[p])
    /\ lastRecalc' = IF pendingIns[p] \cup pendingDel[p] = {} THEN lastRecalc ELSE NoCall
    /\ snap' = IF pendingIns[p] \cup pendingDel[p] = {} THEN snap
               ELSE [q \in Procs |-> NoSnap]
    /\ pc' = [pc EXCEPT ![p] = "idle"]
    /\ pendingIns' = [pendingIns EXCEPT ![p] = {}]
    /\ pendingDel' = [pendingDel EXCEPT ![p] = {}]
    /\ statsNew' = [statsNew EXCEPT ![p] = {}]
    /\ result' = [result EXCEPT ![p] = "ok"]
    /\ tgop' = [tgop EXCEPT ![p] = "NONE"]
    /\ UNCHANGED <<now, triggers, trigQ, txTs, actual_count, appvars, initial,
                   migrated, sample>>

\* a counter kept outside the statement's transaction: the rollback drops
\* the rows and keeps the adjustment
AbortKeepCounter(p) ==
    /\ pc[p] = "trig"
    /\ user_stats' = IF statsNew[p] # {} THEN statsNew[p] ELSE user_stats
    /\ pc' = [pc EXCEPT ![p] = "idle"]
    /\ pendingIns' = [pendingIns EXCEPT ![p] = {}]
    /\ pendingDel' = [pendingDel EXCEPT ![p] = {}]
    /\ statsNew' = [statsNew EXCEPT ![p] = {}]
    /\ trigQ' = [trigQ EXCEPT ![p] = 0]
    /\ result' = [result EXCEPT ![p] = "aborted"]
    /\ tgop' = [tgop EXCEPT ![p] = "NONE"]
    /\ UNCHANGED <<user_list, now, triggers, txTs, actual_count, appvars, histvars>>

\* the statement's transaction is rolled back (error, cancel, lost connection)
Abort(p) ==
    /\ pc[p] = "trig"
    /\ pc' = [pc EXCEPT ![p] = "idle"]
    /\ pendingIns' = [pendingIns EXCEPT ![p] = {}]
    /\ pendingDel' = [pendingDel EXCEPT ![p] = {}]
    /\ statsNew' = [statsNew EXCEPT ![p] = {}]
    /\ trigQ' = [trigQ EXCEPT ![p] = 0]
    /\ result' = [result EXCEPT ![p] = "aborted"]
    /\ tgop' = [tgop EXCEPT ![p] = "NONE"]
    /\ UNCHANGED <<dbvars, txTs, actual_count, appvars, histvars>>

\* ------------------------------------------------------------ migration
\* the trigger part of schema.sql: each trigger is dropped, then created
MigrateTriggers(trgs) ==
    CreateTrigger(
        DropTrigger(
            CreateTrigger(DropTrigger(trgs, "user_insert_trigger"),
                          "user_insert_trigger", "INSERT"),
            "user_delete_trigger"),
        "user_delete_trigger", "DELETE")

\* runMigration: schema.sql sent as one multi-statement query, which the
\* server runs as one transaction.  CREATE TABLE IF NOT EXISTS keeps the
\* existing tables; DROP TRIGGER needs the exclusive lock on user_list, so it
\* waits for the transactions that hold rows or a scan of it.
Migrate ==
    /\ \A p \in Procs : pc[p] \notin {"trig", "recalc_upd"}
    /\ user_stats' = ProvisionStats(user_stats, now)
    /\ triggers' = MigrateTriggers(triggers)
    /\ migrated' = TRUE
    /\ UNCHANGED <<user_list, now, txvars, appvars, initial, sample, netDelta,
                   lastRecalc, snap>>

\* ------------------------------------------------------------ reconciliation
\* SELECT COUNT(*) INTO actual_count FROM user_list
CountUserList(rows) == Cardinality(rows)

\* a reconciliation that adds the count to the stored value
RecalcWriteAdd(stats, actual, ts) ==
    {[r EXCEPT !.total_users = @ + actual, !.last_updated = ts] :
         r \in {x \in stats : x.id = 1}}

\* UPDATE user_stats SET total_users = actual_count, last_updated = ... WHERE id = 1
RecalcWrite(stats, actual, ts) ==
    {[r EXCEPT !.total_users = actual, !.last_updated = ts] :
         r \in {x \in stats : x.id = 1}}

\* a reconciliation that returns the value it found stored
RecalcReturnStored(stats, actual) ==
    IF stats = {} THEN actual ELSE (CHOOSE x \in stats : TRUE).total_users

\* RETURN actual_count
RecalcReturn(stats, actual) == actual

\* first statement of recalculate_user_count(): the count, on the rows
\* committed at that moment
RecalcCountStep(p) ==
    /\ actual_count' = [actual_count EXCEPT ![p] = CountUserList(user_list)]
    /\ txTs' = [txTs EXCEPT ![p] = now]
    /\ pc' = [pc EXCEPT ![p] = "recalc_upd"]
    /\ snap' = [snap EXCEPT ![p] = [clean |-> TRUE, prev |-> lastRecalc]]

\* SELECT recalculate_user_count() sent by a SQL session
RecalcCount(p) ==
    /\ p \in Clients
    /\ pc[p] = "idle"
    /\ RecalcCountStep(p)
    /\ result' = [result EXCEPT ![p] = "running"]
    /\ UNCHANGED <<dbvars, tgop, pendingIns, pendingDel, trigQ, statsNew,
                   appvars, initial, migrated, sample, netDelta,
                   lastRecalc>>

\* second statement of recalculate_user_count(), the return, and the commit
\* of the calling statement
RecalcUpdate(p) ==
    /\ pc[p] = "recalc_upd"
    /\ CanLockStats(p)
    /\ user_stats' = IF \E x \in user_stats : x.id = 1
                     THEN RecalcWrite(user_stats, actual_count[p], txTs[p])
                     ELSE user_stats
    /\ pc' = [pc EXCEPT ![p] = IF p \in Reqs THEN "reselect" ELSE "idle"]
    /\ result' = [result EXCEPT ![p] = IF p \in Reqs THEN result[p] ELSE "ok"]
    /\ lastRecalc' = IF snap[p].clean
                     THEN [ret |-> RecalcReturn(user_stats, actual_count[p]),
                           total |-> user_stats', valid |-> TRUE,
                           n |-> IF snap[p].prev.valid THEN 2 ELSE 1]
                     ELSE NoCall
    /\ snap' = [snap EXCEPT ![p] = NoSnap]
    /\ actual_count' = [actual_count EXCEPT ![p] = 0]
    /\ UNCHANGED <<user_list, now, triggers, tgop, pendingIns, pendingDel, trigQ,
                   statsNew,
                   txTs, appvars, initial, migrated, sample,
                   netDelta>>

\* ------------------------------------------------------------ connection.js
\* DatabaseConnection.query: the gate, then pool.query
\* a gate that looks at the pool object only
GateNoFlag == pool # "null"

Gate == pool # "null" /\ isConnected
QueryFails == ~Gate \/ pool = "ended" \/ ~dbUp

\* how a call of query() ends: the gate's own error, the pool's rejection
\* after end(), a connection error, or a result
QueryOutcome ==
    IF ~Gate THEN "not_connected"
    ELSE IF pool = "ended" THEN "pool_ended"
    ELSE IF ~dbUp THEN "unreachable"
    ELSE "ok"

\* SELECT total_users, last_updated FROM user_stats WHERE id = 1
SelectStats(stats) == {x \in stats : x.id = 1}

\* parseInt(userStats.total_users): the number's decimal string, parsed
RECURSIVE Digits(_)
Digits(n) == IF n < 10 THEN <<n>> ELSE Append(Digits(n \div 10), n % 10)
RECURSIVE DigitsValue(_)
DigitsValue(ds) ==
    IF Len(ds) = 0 THEN 0
    ELSE 10 * DigitsValue(SubSeq(ds, 1, Len(ds) - 1)) + ds[Len(ds)]
ParseInt(n) == IF n < 0 THEN 0 - DigitsValue(Digits(0 - n)) ELSE DigitsValue(Digits(n))

\* ------------------------------------------------------------ server.js
NoResp == [status |-> 0, totalUsers |-> 0, lastUpdated |-> 0, error |-> "none"]

\* a reply whose count is taken from a scan of user_list
ReplyCountScan(row) ==
    [status |-> 200, totalUsers |-> ParseInt(Cardinality(user_list)),
     lastUpdated |-> row.last_updated, error |-> "none"]

\* GET /api/usercount, the try branch
ReplyCount(row) ==
    [status |-> 200, totalUsers |-> ParseInt(row.total_users),
     lastUpdated |-> row.last_updated, error |-> "none"]

\* GET /api/usercount, the catch branch
ReplyError ==
    [status |-> 500, totalUsers |-> 0, lastUpdated |-> 0,
     error |-> "Internal Server Error"]

\* the handler's use of what getUserCount returned: rows[0] of an empty
\* result is undefined, and reading its total_users throws into the catch
ReplyRows(rows) ==
    IF rows = {} THEN ReplyError ELSE ReplyCount(CHOOSE x \in rows : TRUE)

\* GET /api/usercount arrives: getUserCount's first query
UserCountSelect(r) ==
    /\ r \in Reqs
    /\ server = "listening"
    /\ pc[r] = "idle"
    /\ lastQuery' = QueryOutcome
    /\ IF QueryFails
       THEN /\ resp' = [resp EXCEPT ![r] = ReplyError]
            /\ UNCHANGED pc
       ELSE IF SelectStats(user_stats) = {}
       THEN /\ pc' = [pc EXCEPT ![r] = "fallback"]
            /\ resp' = [resp EXCEPT ![r] = NoResp]
       ELSE /\ resp' = [resp EXCEPT ![r] = ReplyRows(SelectStats(user_stats))]
            /\ UNCHANGED pc
    /\ UNCHANGED <<dbvars, tgop, pendingIns, pendingDel, trigQ, statsNew, txTs,
                   actual_count, result, pool, isConnected, server, dbUp,
                   health, histvars>>

\* getUserCount's fallback: query('SELECT recalculate_user_count()')
UserCountRecalc(r) ==
    /\ r \in Reqs
    /\ pc[r] = "fallback"
    /\ IF QueryFails
       THEN /\ resp' = [resp EXCEPT ![r] = ReplyError]
            /\ pc' = [pc EXCEPT ![r] = "idle"]
            /\ UNCHANGED <<actual_count, txTs, snap>>
       ELSE /\ RecalcCountStep(r)
            /\ UNCHANGED resp
    /\ lastQuery' = QueryOutcome
    /\ UNCHANGED <<dbvars, tgop, pendingIns, pendingDel, trigQ, statsNew,
                   result, pool, isConnected, server, dbUp, health,
                   initial, migrated, sample, netDelta, lastRecalc>>

\* getUserCount's second read of the counter row, and the handler's reply
UserCountReselect(r) ==
    /\ r \in Reqs
    /\ pc[r] = "reselect"
    /\ lastQuery' = QueryOutcome
    /\ resp' = [resp EXCEPT ![r] = IF QueryFails THEN ReplyError
                                   ELSE ReplyRows(SelectStats(user_stats))]
    /\ pc' = [pc EXCEPT ![r] = "idle"]
    /\ UNCHANGED <<dbvars, tgop, pendingIns, pendingDel, trigQ, statsNew, txTs,
                   actual_count, result, pool, isConnected, server, dbUp,
                   health, histvars>>

\* a health check that trusts the connection flag and sends no probe
healthCheckFlagOnly ==
    IF isConnected THEN [status |-> "healthy", connected |-> TRUE]
    ELSE [status |-> "unhealthy", connected |-> FALSE]

\* healthCheck(): query('SELECT 1'); every error is caught
healthCheck ==
    IF QueryFails THEN [status |-> "unhealthy", connected |-> FALSE]
    ELSE [status |-> "healthy", connected |-> isConnected]

\* no reply of GET /health yet
NoHealth == [code |-> 0, status |-> "none"]

\* GET /health: 200 'healthy' when healthCheck() says so, else 503 'unhealthy'
HealthReply(dbHealth) ==
    IF dbHealth.status = "healthy"
    THEN [code |-> 200, status |-> "healthy"]
    ELSE [code |-> 503, status |-> "unhealthy"]

Health ==
    /\ server = "listening"
    /\ health' = HealthReply(healthCheck)
    /\ lastQuery' = QueryOutcome
    /\ UNCHANGED <<dbvars, txvars, pool, isConnected, server, dbUp, resp, histvars>>

\* gracefulShutdown, first step: dbConnection.close() calls pool.end()
ShutdownBegin ==
    /\ server = "listening"
    /\ pool = "open"
    /\ pool' = "ended"
    /\ UNCHANGED <<dbvars, txvars, isConnected, server, dbUp, resp, health,
                   lastQuery, histvars>>

\* pool.end() resolved: close() clears the flag
ShutdownDbClosed ==
    /\ server = "listening"
    /\ pool = "ended"
    /\ isConnected
    /\ isConnected' = FALSE
    /\ UNCHANGED <<dbvars, txvars, pool, server, dbUp, resp, health, lastQuery,
                   histvars>>

\* fastify.close() after close() returned: the server stops listening once
\* the accepted requests are answered, then process.exit(0)
ShutdownHttpClosed ==
    /\ server = "listening"
    /\ pool = "ended"
    /\ ~isConnected
    /\ \A r \in Reqs : pc[r] = "idle"
    /\ server' = "exited"
    /\ UNCHANGED <<dbvars, txvars, pool, isConnected, dbUp, resp, health,
                   lastQuery, histvars>>

\* ------------------------------------------------------------ setup.js sample
\* sampleUsers[i]: five entries, pairwise distinct in username and in email
SampleUser(i) == [username |-> i, email |-> i]
SampleUsers == {SampleUser(i) : i \in 1..NumSamples}

\* no run of addSampleData: position 0, nothing reported
NoRun == [at |-> 0, runs |-> 0, reported |-> -1]

\* a loop whose catch rethrows every error
SampleCaughtNone(code) == FALSE

\* the catch of the loop body: error.code === '23505' is logged and skipped
SampleCaught(code) == code = "23505"

\* addSampleData is called: the loop starts at sampleUsers[0]
SampleStart(p) ==
    /\ p \in Clients
    /\ pc[p] = "idle"
    /\ sample[p].at = 0
    /\ sample[p].runs < MaxRuns
    /\ sample' = [sample EXCEPT ![p].at = 1, ![p].runs = @ + 1]
    /\ result' = [result EXCEPT ![p] = "none"]
    /\ UNCHANGED <<dbvars, pc, tgop, pendingIns, pendingDel, trigQ, statsNew, txTs,
                   actual_count, appvars, initial, migrated, netDelta, lastRecalc,
                   snap>>

\* one turn of the loop: INSERT INTO user_list (username, email) VALUES
\* ($1, $2) for the entry the loop stands at; a unique violation is caught
\* and the loop goes on, any other outcome is awaited
SampleInsert(p) ==
    /\ p \in Clients
    /\ pc[p] = "idle"
    /\ sample[p].at \in 1..NumSamples
    /\ result[p] # "aborted"
    /\ LET rs == {SampleUser(sample[p].at)} IN
       /\ \A q \in Procs \ {p} : ~Collide(rs, pendingIns[q] \cup pendingDel[q])
       /\ IF Collide(rs, user_list)
          THEN /\ result' = [result EXCEPT ![p] = "23505"]
               /\ sample' = [sample EXCEPT
                                ![p].at = IF SampleCaught("23505") THEN @ + 1 ELSE 0]
               /\ UNCHANGED <<pc, tgop, pendingIns, trigQ, txTs>>
          ELSE /\ pc' = [pc EXCEPT ![p] = "trig"]
               /\ tgop' = [tgop EXCEPT ![p] = "INSERT"]
               /\ pendingIns' = [pendingIns EXCEPT ![p] = rs]
               /\ trigQ' = [trigQ EXCEPT
                              ![p] = TriggerEvents(rs) * TriggersOn(triggers, "INSERT")]
               /\ txTs' = [txTs EXCEPT ![p] = now]
               /\ result' = [result EXCEPT ![p] = "running"]
               /\ sample' = [sample EXCEPT ![p].at = @ + 1]
    /\ UNCHANGED <<dbvars, pendingDel, statsNew, actual_count, appvars, initial,
                   migrated, netDelta, lastRecalc, snap>>

\* the awaited INSERT failed with another error: the catch rethrows and
\* addSampleData fails
SampleThrow(p) ==
    /\ p \in Clients
    /\ pc[p] = "idle"
    /\ sample[p].at > 0
    /\ result[p] = "aborted"
    /\ ~SampleCaught(result[p])
    /\ sample' = [sample EXCEPT ![p].at = 0]
    /\ UNCHANGED <<dbvars, txvars, appvars, initial, migrated, netDelta,
                   lastRecalc, snap>>

\* after the loop: getUserCount() on the provisioned counter row and the
\* log line 'Total users after sample data'; without the row getUserCount
\* goes to its fallback and nothing is reported here
SampleVerify(p) ==
    /\ p \in Clients
    /\ pc[p] = "idle"
    /\ sample[p].at = NumSamples + 1
    /\ result[p] # "aborted"
    /\ SelectStats(user_stats) # {}
    /\ sample' = [sample EXCEPT
                     ![p].at = 0,
                     ![p].reported =
                         (CHOOSE x \in SelectStats(user_stats) : TRUE).total_users]
    /\ UNCHANGED <<dbvars, txvars, appvars, initial, migrated, netDelta,
                   lastRecalc, snap>>

\* start(): connect(), then listen; a failed connect exits the process
Start ==
    /\ server = "starting"
    /\ pool' = "open"
    /\ isConnected' = dbUp
    /\ server' = IF dbUp THEN "listening" ELSE "exited"
    /\ UNCHANGED <<dbvars, txvars, dbUp, resp, health, lastQuery, histvars>>

\* pool.on('error'): an idle client of the pool failed
PoolError ==
    /\ server = "listening"
    /\ pool = "open"
    /\ isConnected
    /\ isConnected' = FALSE
    /\ UNCHANGED <<dbvars, txvars, pool, server, dbUp, resp, health, lastQuery, histvars>>

\* the database becomes unreachable / reachable for the server's pool
DbDown ==
    /\ dbUp
    /\ dbUp' = FALSE
    /\ UNCHANGED <<dbvars, txvars, pool, isConnected, server, resp, health, lastQuery, histvars>>

\* a pool that marks itself connected again when the database returns
DbBackReconnect ==
    /\ ~dbUp
    /\ dbUp' = TRUE
    /\ isConnected' = (pool = "open")
    /\ UNCHANGED <<dbvars, txvars, pool, server, resp, health, lastQuery, histvars>>

DbBack ==
    /\ ~dbUp
    /\ dbUp' = TRUE
    /\ UNCHANGED <<dbvars, txvars, pool, isConnected, server, resp, health, lastQuery, histvars>>

\* ------------------------------------------------------------ specifications
InitProcs ==
    /\ now = 0
    /\ pc = [p \in Procs |-> "idle"]
    /\ tgop = [p \in Procs |-> "NONE"]
    /\ pendingIns = [p \in Procs |-> {}]
    /\ pendingDel = [p \in Procs |-> {}]
    /\ trigQ = [p \in Procs |-> 0]
    /\ statsNew = [p \in Procs |-> {}]
    /\ txTs = [p \in Procs |-> 0]
    /\ actual_count = [p \in Procs |-> 0]
    /\ result = [p \in Procs |-> "none"]
    /\ pool = "null"
    /\ isConnected = FALSE
    /\ server = "starting"
    /\ dbUp = TRUE
    /\ resp = [r \in Reqs |-> NoResp]
    /\ health = NoHealth
    /\ lastQuery = "none"
    /\ triggers = SchemaTriggers
    /\ netDelta = 0
    /\ migrated = FALSE
    /\ sample = [p \in Clients |-> NoRun]
    /\ lastRecalc = NoCall
    /\ snap = [p \in Procs |-> NoSnap]

\* the database as schema.sql provisions it
Init ==
    /\ user_list = {}
    /\ user_stats = ProvisionStats({}, 0)
    /\ initial = user_stats
    /\ InitProcs

NextLedger ==
    \/ \E p \in Clients, rs \in StmtRows : InsertStmt(p, rs)
    \/ \E p \in Clients, rs \in SUBSET user_list : DeleteStmt(p, rs)
    \/ \E p \in Clients : FireTrigger(p)
    \/ \E p \in Clients : Commit(p)
    \/ \E p \in Clients : Abort(p)

NextRecon ==
    \/ \E p \in Clients : RecalcCount(p)
    \/ \E p \in Clients : RecalcUpdate(p)

NextRead ==
    \/ \E r \in Reqs : UserCountSelect(r)
    \/ \E r \in Reqs : UserCountRecalc(r)
    \/ \E r \in Reqs : RecalcUpdate(r)
    \/ \E r \in Reqs : UserCountReselect(r)
    \/ Start
    \/ PoolError
    \/ DbDown
    \/ DbBack

NextData == NextLedger \/ NextRecon
NextService == NextLedger \/ NextRead

\* a database whose counter row direct SQL (psql, a restored backup) has
\* removed or set to any value; the ledger is filled by the statements
InitAny ==
    /\ user_list = {}
    /\ user_stats \in {{}} \cup {{StatsRow(n, 0)} : n \in 0..MaxTotal}
    /\ initial = user_stats
    /\ InitProcs

SpecLedger == Init /\ [][NextLedger]_vars
SpecLedgerAny == InitAny /\ [][NextLedger]_vars
Spec == Init /\ [][NextData]_vars
SpecAny == InitAny /\ [][NextData]_vars
SpecRead == InitAny /\ [][NextService]_vars

\* the provisioned database under every kind of statement, reconciliation,
\* repeated migration runs and the server's reads
NextSchema ==
    \/ NextLedger
    \/ NextRecon
    \/ \E p \in Clients, old \in Rows, new \in Rows : UpdateStmt(p, old, new)
    \/ Migrate
    \/ Start
    \/ \E r \in Reqs : UserCountSelect(r)

SpecSchema == Init /\ [][NextSchema]_vars

\* the server process over a database nobody else writes
NextServer ==
    \/ Start
    \/ PoolError
    \/ DbDown
    \/ DbBack
    \/ Health
    \/ ShutdownBegin
    \/ ShutdownDbClosed
    \/ ShutdownHttpClosed
    \/ \E r \in Reqs : UserCountSelect(r)
    \/ \E r \in Reqs : UserCountRecalc(r)
    \/ \E r \in Reqs : RecalcUpdate(r)
    \/ \E r \in Reqs : UserCountReselect(r)

SpecServer == InitAny /\ [][NextServer]_vars

\* the provisioned database under statements and repeated migration runs
NextMigrate ==
    \/ NextLedger
    \/ \E p \in Clients, old \in Rows, new \in Rows : UpdateStmt(p, old, new)
    \/ Migrate

SpecMigrate == Init /\ [][NextMigrate]_vars

\* runs of addSampleData on the provisioned, empty database
NextSample ==
    \/ \E p \in Clients : SampleStart(p)
    \/ \E p \in Clients : SampleInsert(p)
    \/ \E p \in Clients : FireTrigger(p)
    \/ \E p \in Clients : Commit(p)
    \/ \E p \in Clients : Abort(p)
    \/ \E p \in Clients : SampleThrow(p)
    \/ \E p \in Clients : SampleVerify(p)

SpecSample == Init /\ [][NextSample]_vars

\* the database clock advances
Tick ==
    /\ now < MaxTime
    /\ now' = now + 1
    /\ UNCHANGED <<user_list, user_stats, triggers, txvars, appvars, histvars>>

\* statements and reconciliations under a running clock
NextClock == NextLedger \/ NextRecon \/ Tick

SpecClock == Init /\ [][NextClock]_vars

\* ------------------------------------------------------------ properties
Quiescent == \A p \in Procs : pc[p] = "idle"
Totals(stats) == {r.total_users : r \in stats}

\* C1: from the provisioned database, in every committed state reached by
\* inserts and deletes (single-row or multi-row), the counter row exists and
\* its total_users equals the number of rows of user_list.
C1_CounterMatchesLedger ==
    \E r \in user_stats : r.id = 1 /\ r.total_users = Cardinality(user_list)

\* the ledger holds two committed rows, one session has committed, and the
\* other's delete has run all its triggers and is about to commit
C1_Witness ==
    /\ Cardinality(user_list) = 2
    /\ result["c1"] = "ok"
    /\ pc["c2"] = "trig" /\ pendingDel["c2"] # {} /\ trigQ["c2"] = 0

\* C2: no lost updates: whatever total_users was at the start and however
\* the insert and delete transactions interleave, the committed total_users
\* is the initial value plus the rows inserted minus the rows deleted by the
\* committed transactions.
C2_NoLostUpdates ==
    \A r \in user_stats : \A r0 \in initial :
        r.total_users = r0.total_users + netDelta

\* an insert and a delete are in flight together after commits that
\* changed the count of a database whose counter started above zero
C2_Witness ==
    /\ \E r0 \in initial : r0.total_users > 0
    /\ netDelta = 1
    /\ pendingIns["c1"] # {} /\ pendingDel["c2"] # {}
    /\ statsNew["c1"] # {}

\* C3 (as claimed): while the counter row is absent no statement changes
\* user_list: the mutation fails and is rolled back.
C3_MissingRowFailsClosed ==
    [][user_stats = {} => user_list' = user_list]_vars

\* C4 (as claimed): a read that found the counter row absent and whose
\* queries all went through ends with a 200 reply whose count is the number
\* of rows of user_list.
C4_SelfHealingRead ==
    [][\A r \in Reqs :
          (pc[r] = "reselect" /\ pc'[r] = "idle" /\ ~QueryFails)
              => /\ resp'[r].status = 200
                 /\ resp'[r].totalUsers = Cardinality(user_list)]_vars

\* C5 (as claimed): whenever no statement is in flight, reconciliations and
\* mutations having committed in any interleaving, total_users equals the
\* number of rows of user_list.
C5_QuiescentConsistent ==
    Quiescent => \E r \in user_stats : r.total_users = Cardinality(user_list)

\* C6: a reconciliation during which no mutation committed, on a database
\* holding the counter row with any value, leaves total_users equal to the
\* number of rows of user_list and returns that number.
C6_DriftRepair ==
    [][\A p \in Clients :
          (pc[p] = "recalc_upd" /\ pc'[p] = "idle" /\ snap[p].clean
             /\ user_stats # {})
              => /\ Totals(user_stats') = {Cardinality(user_list')}
                 /\ lastRecalc'.ret = Cardinality(user_list')]_vars

\* a reconciliation has just repaired a counter that was two too high
C6_Witness ==
    /\ lastRecalc.valid
    /\ \E r0 \in initial : r0.total_users = 2
    /\ Cardinality(user_list) = 1
    /\ lastRecalc.ret = 1
    /\ Totals(user_stats) = {1}

\* C7 (as claimed): the stored total_users and the count a reconciliation
\* returned are never below 0.
C7_NonNegative ==
    /\ \A r \in user_stats : r.total_users >= 0
    /\ lastRecalc.valid => lastRecalc.ret >= 0

C9_UnavailableIs503 ==
    [][\A r \in Reqs :
          (server = "listening" /\ ~dbUp /\ resp'[r] # resp[r])
              => resp'[r].status = 503]_vars

\* C10: a reconciliation that follows a completed reconciliation, no
\* mutation having committed since the first one started, returns the same
\* count and leaves the same total_users.
C10_RecalcIdempotent ==
    [][\A p \in Clients :
          (pc[p] = "recalc_upd" /\ pc'[p] = "idle" /\ snap[p].clean
             /\ snap[p].prev.valid)
              => /\ lastRecalc'.ret = snap[p].prev.ret
                 /\ Totals(user_stats') = Totals(snap[p].prev.total)]_vars

\* the second of two consecutive reconciliations has returned, on a
\* counter that had drifted from a non-empty ledger
C10_Witness ==
    /\ lastRecalc.valid /\ lastRecalc.n = 2
    /\ user_list # {}
    /\ \E r0 \in initial : r0.total_users + netDelta # Cardinality(user_list)


\* C11: a rollback of a statement on user_list, before or after its
\* triggers ran, leaves the committed user_list and user_stats as they were
\* and drops every uncommitted row and counter version of the transaction;
\* nothing of a transaction is visible in the tables before it commits, so
\* the tables are then as if the transaction had never begun.
C11_RollbackRestores ==
    [][\A p \in Clients :
          (pc[p] = "trig" /\ pc'[p] = "idle" /\ result'[p] = "aborted")
              => /\ user_list' = user_list
                 /\ user_stats' = user_stats
                 /\ pendingIns'[p] = {} /\ pendingDel'[p] = {}
                 /\ statsNew'[p] = {}
                 /\ Totals(user_stats') = {Cardinality(user_list')}]_vars

\* a statement was rolled back on a ledger that holds a row, while the
\* other session's insert has run its trigger and holds the counter row
C11_Witness ==
    /\ result["c1"] = "aborted"
    /\ user_list # {}
    /\ pc["c2"] = "trig" /\ statsNew["c2"] # {}


\* C12: after provisioning, user_stats holds exactly one row and its id is 1
\* in every state reached by migration runs, inserts, deletes and updates of
\* user_list, reconciliations and reads.
C12_SingleStatsRow ==
    /\ Cardinality(user_stats) = 1
    /\ \A r \in user_stats : r.id = 1

\* a migration has run again, a reconciliation has written the counter of a
\* non-empty ledger, a read was answered and an UPDATE is in flight
C12_Witness ==
    /\ migrated
    /\ user_list # {}
    /\ lastRecalc.valid
    /\ resp["r1"].status = 200
    /\ tgop["c1"] = "UPDATE"

\* C13: an UPDATE of a user_list row queues no trigger event and writes no
\* version of the counter row, and its commit changes the row in user_list
\* and leaves user_stats (total_users and last_updated) as it was.
C13_UpdateLeavesCounter ==
    [][\A p \in Clients :
          /\ (\E old \in Rows, new \in Rows : UpdateStmt(p, old, new))
                 => trigQ'[p] = 0 /\ statsNew'[p] = {}
          /\ (tgop[p] = "UPDATE" /\ pc[p] = "trig" /\ result'[p] = "ok")
                 => /\ user_stats' = user_stats
                    /\ user_list' = (user_list \ pendingDel[p]) \cup pendingIns[p]
                    /\ Cardinality(user_list') = Cardinality(user_list)]_vars

\* on a ledger of one row counted as one, an UPDATE that changes a key of
\* the row is in flight
C13_Witness ==
    /\ result["c1"] = "ok"
    /\ Totals(user_stats) = {1}
    /\ user_list = {[username |-> 2, email |-> 2]}
    /\ netDelta = 1
    /\ pc["c2"] = "trig" /\ tgop["c2"] = "UPDATE" /\ pendingIns["c2"] # pendingDel["c2"]

\* C19: on the provisioned database a migration run, between any inserts,
\* deletes and updates, leaves user_list and the counter row unchanged and
\* leaves exactly one insert trigger and one delete trigger; an INSERT that
\* commits still moves total_users by one per inserted row.
C19_MigrationIdempotent ==
    [][/\ Migrate => /\ user_list' = user_list
                     /\ user_stats' = user_stats
                     /\ Cardinality(triggers') = 2
                     /\ TriggersOn(triggers', "INSERT") = 1
                     /\ TriggersOn(triggers', "DELETE") = 1
       /\ \A p \in Clients :
             (tgop[p] = "INSERT" /\ pc[p] = "trig" /\ result'[p] = "ok")
                 => \A r \in user_stats : \A r2 \in user_stats' :
                        r2.total_users = r.total_users + Cardinality(pendingIns[p])]_vars

\* the migration has run again on a ledger of one row counted as one, and
\* an insert is in flight whose trigger has raised the counter to two
C19_Witness ==
    /\ migrated
    /\ Cardinality(user_list) = 1
    /\ Totals(user_stats) = {1}
    /\ pc["c1"] = "trig" /\ tgop["c1"] = "INSERT"
    /\ \E r \in statsNew["c1"] : r.total_users = 2


\* C14: the first query of GET /api/usercount changes neither table; when it
\* succeeds and the counter row exists the reply is exactly the stored
\* total_users and last_updated, whatever user_list holds; the request moves
\* on to the reconciliation only when the query succeeded and returned no
\* row, and a failed query is answered at once with an error.
C14_ReadOnlyCounterOnly ==
    [][\A r \in Reqs :
          UserCountSelect(r)
              => /\ user_list' = user_list
                 /\ user_stats' = user_stats
                 /\ (pool = "open" /\ isConnected /\ dbUp /\ user_stats # {})
                       => /\ pc'[r] = "idle"
                          /\ \E row \in user_stats :
                                resp'[r] = [status |-> 200,
                                            totalUsers |-> row.total_users,
                                            lastUpdated |-> row.last_updated,
                                            error |-> "none"]
                 /\ (pc'[r] = "fallback")
                       <=> (pool = "open" /\ isConnected /\ dbUp /\ user_stats = {})
                 /\ ~(pool = "open" /\ isConnected /\ dbUp)
                       => pc'[r] = "idle" /\ resp'[r].status = 500]_vars

\* a read answered with the stored count 2 while user_list is empty
C14_Witness ==
    /\ resp["r1"].status = 200
    /\ resp["r1"].totalUsers = 2
    /\ Totals(user_stats) = {2}
    /\ user_list = {}

\* C15: during a graceful shutdown a GET /api/usercount the server accepts
\* gets the normal count: with the database reachable, the counter row
\* present and the connection not reported broken, the reply is 200.
C15_ShutdownServesAccepted ==
    [][\A r \in Reqs :
          (UserCountSelect(r) /\ dbUp /\ isConnected /\ user_stats # {})
              => resp'[r].status = 200]_vars

\* C16: GET /health always answers while the server listens; the answer is
\* 200 'healthy' exactly when the probe ran on an open, connected pool and
\* the database answered it, and 503 'unhealthy' in every other case.
C16_HealthReflectsProbe ==
    /\ [](server = "listening" => ENABLED Health)
    /\ [][Health
            => /\ (pool = "open" /\ isConnected /\ dbUp)
                    => health' = [code |-> 200, status |-> "healthy"]
               /\ ~(pool = "open" /\ isConnected /\ dbUp)
                    => health' = [code |-> 503, status |-> "unhealthy"]]_vars

\* a probe that failed on a pool still flagged connected
C16_Witness ==
    /\ health.code = 503
    /\ lastQuery = "unreachable"
    /\ pool = "open" /\ isConnected /\ ~dbUp

\* C17: a query issued while the pool is null or isConnected is false ends
\* with 'Database not connected', starts nothing in the database and gets no
\* count; a query gets past the gate only with a pool and the flag set, and
\* the flag is set only by a successful connect() and cleared by the pool's
\* error event and by close().
C17_ConnectionGate ==
    [][/\ \A r \in Reqs :
             ((UserCountSelect(r) \/ UserCountRecalc(r) \/ UserCountReselect(r)
                 \/ Health) /\ (pool = "null" \/ ~isConnected))
                 => /\ lastQuery' = "not_connected"
                    /\ dbvars' = dbvars
                    /\ pc'[r] = pc[r] \/ pc'[r] = "idle"
                    /\ resp'[r] = resp[r] \/ resp'[r].status = 500
                    /\ health' = health \/ health'.code = 503
       /\ \A r \in Reqs :
             ((UserCountSelect(r) \/ UserCountRecalc(r) \/ UserCountReselect(r)
                 \/ Health) /\ lastQuery' # "not_connected")
                 => pool # "null" /\ isConnected
       /\ (~isConnected /\ isConnected') => (server = "starting" /\ dbUp)
       /\ (PoolError \/ ShutdownDbClosed) => ~isConnected']_vars

\* the gate's error on an open pool of a reachable database
C17_Witness ==
    /\ lastQuery = "not_connected"
    /\ pool = "open" /\ ~isConnected /\ dbUp
    /\ resp["r1"].status = 500

\* C18: once isConnected is false in the listening server it stays false,
\* every GET /api/usercount answered from then on is a 500 and every GET
\* /health a 503, also when the database is reachable.
C18_NoRecovery ==
    [][(server = "listening" /\ ~isConnected)
          => /\ ~isConnected'
             /\ \A r \in Reqs : resp'[r] # resp[r] => resp'[r].status = 500
             /\ Health => health'.code = 503]_vars

\* after a pool error and the database's return: a 500 and a 503
C18_Witness ==
    /\ server = "listening" /\ pool = "open" /\ ~isConnected /\ dbUp
    /\ resp["r1"].status = 500
    /\ health.code = 503
    /\ lastQuery = "not_connected"

\* C20: every committed write of the counter row stores a last_updated that
\* is not earlier than the one it replaces.
C20_LastUpdatedMonotonic ==
    [][\A r \in user_stats : \A r2 \in user_stats' :
          r2.last_updated >= r.last_updated]_vars


\* C21: in runs of addSampleData on the provisioned, initially empty
\* database, an INSERT of a sample user that already exists changes nothing
\* and the loop goes on to the next entry; every run that reaches its
\* verification finds exactly the five sample users in user_list and reports
\* total_users = 5, in a first run, a repeated run or a run beside another.
C21_SampleDataIdempotent ==
    [][\A p \in Clients :
          /\ (SampleInsert(p) /\ Collide({SampleUser(sample[p].at)}, user_list))
                => /\ sample'[p].at = sample[p].at + 1
                   /\ user_list' = user_list
                   /\ user_stats' = user_stats
          /\ SampleVerify(p)
                => /\ user_list = SampleUsers
                   /\ Cardinality(user_list) = 5
                   /\ sample'[p].reported = 5]_vars

\* a client's last permitted run skipped its way through a ledger that
\* already held every sample user and reported 5
C21_Witness ==
    /\ sample["c1"].runs = MaxRuns
    /\ sample["c1"].at = 0
    /\ sample["c1"].reported = 5
    /\ result["c1"] = "23505"
    /\ user_list = SampleUsers
    /\ Totals(user_stats) = {5}

====
